---- MODULE Spec2Model ----
(***************************************************************************)
(* TokenizedMessageLimiter of src/token_limiter/token_limiter.py: a        *)
(* message history with a running token count that is pruned from the head *)
(* when the count exceeds the limit, plus one replaceable system message.   *)
(*                                                                         *)
(* Texts are modelled at token granularity: a text is the sequence of the  *)
(* tokens the tiktoken encoding splits it into, so the length of           *)
(* encoding.encode(text) is the length of the sequence.  The token "w" is  *)
(* a word, the token " " is whitespace.  The empty text is <<>>.           *)
(***************************************************************************)
EXTENDS Integers, Sequences, FiniteSets, TLC

\* ---------------------------------------------------------------- bounds
\* longest text (in tokens) a caller passes, besides the default system text
MaxTextLen == 2
\* external limits handed to the constructor
SmallLimit == 18
LargeLimit == 26
\* deep copies made in one run
MaxCopies == 2

\* tokens of the default system message of __init__: one per word, two for
\* "concisely"; no property below depends on the exact number
DefaultSystemLen == 12

Tokens == {"w", " "}
Text(n, t) == [i \in 1..n |-> t]
DefaultSystemText == Text(DefaultSystemLen, "w")
Texts == {Text(n, "w") : n \in 0..MaxTextLen} \cup {Text(1, " "), DefaultSystemText}
ExtLimits == {SmallLimit, LargeLimit}

\* ------------------------------------------------------------------ Role
ASSISTANT == "assistant"
USER == "user"
SYSTEM == "system"
Role == {ASSISTANT, USER, SYSTEM}

\* ---------------------------------------------------------- MessageEntry
\* encoding.encode(value) of a text: the text's tokens
encode(value) == value
\* encoding.encode(value) of a role string: each role value is one token
encode_role(role) == <<role>>

\* the model names the estimator is asked about
SupportedModel == "gpt-3.5-turbo"
Models == {SupportedModel, "gpt-3.5-turbo-0301", "gpt-4", "text-davinci-003",
           "unknown-model"}

\* tiktoken.encoding_for_model: the encoding's name, KeyError for a model
\* tiktoken does not know
encoding_for_model(model) ==
    IF model \in {"gpt-3.5-turbo", "gpt-3.5-turbo-0301", "gpt-4",
                 "gpt-4-vision-preview", "gpt-4-turbo-preview"}
    THEN [raised |-> "none", ret |-> "cl100k_base"]
    ELSE IF model = "text-davinci-003"
    THEN [raised |-> "none", ret |-> "p50k_base"]
    ELSE [raised |-> "KeyError", ret |-> "none"]

\* the try/except around the tokenizer lookup
lookup_encoding(model) ==
    IF encoding_for_model(model).raised = "KeyError"
    THEN "cl100k_base"
    ELSE encoding_for_model(model).ret

\* encoding.encode(value) of the value stored under a key of the message
encode_item(key, value) == IF key = "role" THEN encode_role(value) ELSE encode(value)

\* the loop over msg.items(): the lengths of the encoded values, one less
\* for a value stored under 'name'
RECURSIVE items_tokens(_, _)
items_tokens(msg, keys) ==
    IF keys = {} THEN 0
    ELSE LET key == CHOOSE k \in keys : TRUE
         IN Len(encode_item(key, msg[key]))
            + (IF key = "name" THEN -1 ELSE 0)
            + items_tokens(msg, keys \ {key})

\* an estimator that applies the formula whatever the model
calculate_tokens_any_model(msg, model) ==
    [raised |-> "none",
     ret |-> 4 + items_tokens(msg, DOMAIN msg) + 2,
     encoding |-> lookup_encoding(model)]

\* an estimator that leaves out the closing 2
calculate_tokens_no_trailer(msg, model) ==
    IF model = SupportedModel
    THEN [raised |-> "none",
          ret |-> 4 + items_tokens(msg, DOMAIN msg),
          encoding |-> lookup_encoding(model)]
    ELSE [raised |-> "NotImplementedError", ret |-> 0,
          encoding |-> lookup_encoding(model)]

\* MessageEntry._calculate_tokens for self.msg, and calculate_tokens(msg,
\* model) of util.py, which has the same body
calculate_tokens(msg, model) ==
    IF model = SupportedModel
    THEN [raised |-> "none",
          ret |-> 4 + items_tokens(msg, DOMAIN msg) + 2,
          encoding |-> lookup_encoding(model)]
    ELSE [raised |-> "NotImplementedError", ret |-> 0,
          encoding |-> lookup_encoding(model)]

\* MessageEntry._calculate_tokens of the one-file limiter, which raises the
\* limiter's own exception
legacy_calculate_tokens(msg, model) ==
    LET r == calculate_tokens(msg, model)
    IN IF r.raised = "NotImplementedError"
       THEN [r EXCEPT !.raised = "TokenizedMessageLimiterException"]
       ELSE r

\* MessageEntry.__init__ for a given model: the entry, or the exception of
\* the estimate, in which case no entry exists
MessageEntryFor(role, content, model) ==
    LET msg == [role |-> role, content |-> content]
        t == calculate_tokens(msg, model)
    IN IF t.raised = "none"
       THEN [raised |-> "none", ret |-> <<[msg |-> msg, tokens |-> t.ret]>>]
       ELSE [raised |-> t.raised, ret |-> <<>>]

\* the same for the one-file limiter
LegacyMessageEntryFor(role, content, model) ==
    LET msg == [role |-> role, content |-> content]
        t == legacy_calculate_tokens(msg, model)
    IN IF t.raised = "none"
       THEN [raised |-> "none", ret |-> <<[msg |-> msg, tokens |-> t.ret]>>]
       ELSE [raised |-> t.raised, ret |-> <<>>]

\* MessageEntry.__init__ with the default model
MessageEntry(role, content) ==
    LET msg == [role |-> role, content |-> content]
    IN [msg |-> msg, tokens |-> calculate_tokens(msg, SupportedModel).ret]

\* --------------------------------------------- TokenizedMessageLimiter
\* an absent optional argument (None) is the empty set, a given one {v}
None == {}

\* TokenizedMessageLimiter.__init__
TokenizedMessageLimiter(limit_arg) ==
    LET entry == MessageEntry(SYSTEM, DefaultSystemText)
    IN [limit |-> limit_arg - entry.tokens,
        message_history |-> <<>>,
        token_count |-> 0,
        system_message |-> entry]

\* the result of a method call: the object after it, the exception raised
\* ("none" when it returned) and the value returned
Returned(self, value) == [self |-> self, raised |-> "none", ret |-> value]
Raised(self, exc) == [self |-> self, raised |-> exc, ret |-> <<>>]

\* prune_loop comparing with >= : evicts at exactly the limit too
RECURSIVE prune_loop_ge(_, _)
prune_loop_ge(self, pruned_messages) ==
    IF self.token_count >= self.limit
    THEN IF self.message_history = <<>>
         THEN Raised(self, "IndexError")
         ELSE LET removed_entry == Head(self.message_history)
              IN prune_loop_ge([self EXCEPT
                                   !.message_history = Tail(@),
                                   !.token_count = @ - removed_entry.tokens],
                               Append(pruned_messages, removed_entry))
    ELSE Returned(self, pruned_messages)

\* prune_loop that never removes the last remaining entry
RECURSIVE prune_loop_keep_last(_, _)
prune_loop_keep_last(self, pruned_messages) ==
    IF self.token_count > self.limit /\ Len(self.message_history) > 1
    THEN LET removed_entry == Head(self.message_history)
         IN prune_loop_keep_last([self EXCEPT
                                     !.message_history = Tail(@),
                                     !.token_count = @ - removed_entry.tokens],
                                 Append(pruned_messages, removed_entry))
    ELSE Returned(self, pruned_messages)

\* prune_loop that does not subtract the removed entry's tokens
RECURSIVE prune_loop_no_subtract(_, _)
prune_loop_no_subtract(self, pruned_messages) ==
    IF self.token_count > self.limit
    THEN IF self.message_history = <<>>
         THEN Raised(self, "IndexError")
         ELSE LET removed_entry == Head(self.message_history)
              IN prune_loop_no_subtract(
                     [self EXCEPT !.message_history = Tail(@)],
                     Append(pruned_messages, removed_entry))
    ELSE Returned(self, pruned_messages)

\* prune_loop that puts each removed entry at the front of the list
RECURSIVE prune_loop_prepend(_, _)
prune_loop_prepend(self, pruned_messages) ==
    IF self.token_count > self.limit
    THEN IF self.message_history = <<>>
         THEN Raised(self, "IndexError")
         ELSE LET removed_entry == Head(self.message_history)
              IN prune_loop_prepend([self EXCEPT
                                        !.message_history = Tail(@),
                                        !.token_count = @ - removed_entry.tokens],
                                    <<removed_entry>> \o pruned_messages)
    ELSE Returned(self, pruned_messages)

\* the while loop of _prune_messages; deque.popleft() on an empty deque
\* raises IndexError
RECURSIVE prune_loop(_, _)
prune_loop(self, pruned_messages) ==
    IF self.token_count > self.limit
    THEN IF self.message_history = <<>>
         THEN Raised(self, "IndexError")
         ELSE LET removed_entry == Head(self.message_history)
              IN prune_loop([self EXCEPT
                                !.message_history = Tail(@),
                                !.token_count = @ - removed_entry.tokens],
                            Append(pruned_messages, removed_entry))
    ELSE Returned(self, pruned_messages)

\* TokenizedMessageLimiter._prune_messages: the loop compares with
\* self.limit, the local `limit` is assigned and not read
prune_messages(self, limit_arg) ==
    LET limit_local == IF limit_arg = None THEN self.limit
                       ELSE CHOOSE l \in limit_arg : TRUE
    IN prune_loop(self, <<>>)

\* set_system_message without the emptiness check
set_system_message_no_check(self, new_system_msg) ==
    LET entry == MessageEntry(SYSTEM, new_system_msg)
    IN Returned([self EXCEPT
                    !.limit = (@ + self.system_message.tokens) - entry.tokens,
                    !.system_message = entry],
                <<>>)

\* set_system_message that does not give the old entry's tokens back
set_system_message_no_restore(self, new_system_msg) ==
    IF new_system_msg = <<>>
    THEN Raised(self, "TokenizedMessageLimiterException")
    ELSE LET entry == MessageEntry(SYSTEM, new_system_msg)
         IN Returned([self EXCEPT
                         !.limit = @ - entry.tokens,
                         !.system_message = entry],
                     <<>>)

\* set_system_message that prunes the history against the new limit
set_system_message_prune(self, new_system_msg) ==
    IF new_system_msg = <<>>
    THEN Raised(self, "TokenizedMessageLimiterException")
    ELSE LET entry == MessageEntry(SYSTEM, new_system_msg)
             r == prune_messages(
                      [self EXCEPT
                          !.limit = (@ + self.system_message.tokens) - entry.tokens,
                          !.system_message = entry],
                      None)
         IN IF r.raised = "none" THEN Returned(r.self, <<>>) ELSE r

\* TokenizedMessageLimiter.set_system_message
set_system_message(self, new_system_msg) ==
    IF new_system_msg = <<>>
    THEN Raised(self, "TokenizedMessageLimiterException")
    ELSE LET entry == MessageEntry(SYSTEM, new_system_msg)
         IN Returned([self EXCEPT
                         !.limit = (@ + self.system_message.tokens) - entry.tokens,
                         !.system_message = entry],
                     <<>>)

\* add_message that appends and never prunes
add_message_no_prune(self, msg, role) ==
    LET entry == MessageEntry(role, msg)
    IN Returned([self EXCEPT
                    !.message_history = Append(@, entry),
                    !.token_count = @ + entry.tokens],
                <<>>)

\* the pruning of add_message_newest_first: pop() instead of popleft()
RECURSIVE prune_right(_)
prune_right(self) ==
    IF self.token_count > self.limit
    THEN IF self.message_history = <<>>
         THEN Raised(self, "IndexError")
         ELSE LET n == Len(self.message_history)
              IN prune_right([self EXCEPT
                                 !.message_history = SubSeq(@, 1, n - 1),
                                 !.token_count = @ - self.message_history[n].tokens])
    ELSE Returned(self, <<>>)

\* add_message that evicts the newest entries first
add_message_newest_first(self, msg, role) ==
    LET entry == MessageEntry(role, msg)
        appended == [self EXCEPT
                        !.message_history = Append(@, entry),
                        !.token_count = @ + entry.tokens]
    IN IF appended.token_count > appended.limit
       THEN prune_right(appended)
       ELSE Returned(appended, <<>>)

\* TokenizedMessageLimiter.add_message
add_message(self, msg, role) ==
    LET entry == MessageEntry(role, msg)
        appended == [self EXCEPT
                        !.message_history = Append(@, entry),
                        !.token_count = @ + entry.tokens]
    IN IF appended.token_count > appended.limit
       THEN LET r == prune_messages(appended, None)
            IN IF r.raised = "none" THEN Returned(r.self, <<>>) ELSE r
       ELSE Returned(appended, <<>>)

\* clean_messages that installs the default system message again
clean_messages_default(self) ==
    LET r == prune_messages(self, {0})
    IN IF r.raised = "none"
       THEN set_system_message(r.self, DefaultSystemText)
       ELSE r

\* TokenizedMessageLimiter.clean_messages
clean_messages(self) ==
    LET r == prune_messages(self, {0})
    IN IF r.raised = "none"
       THEN set_system_message(r.self, r.self.system_message.msg.content)
       ELSE r

\* serialize_messages listing the history newest first
serialize_messages_newest_first(self) ==
    LET n == Len(self.message_history)
    IN Returned(self,
                <<self.system_message.msg>>
                    \o [i \in 1..n |-> self.message_history[n + 1 - i].msg])

\* serialize_messages that prunes the history before listing it
serialize_messages_prune(self) ==
    LET r == prune_messages(self, None)
    IN IF r.raised = "none"
       THEN Returned(r.self,
                     <<r.self.system_message.msg>>
                         \o [i \in 1..Len(r.self.message_history) |->
                                r.self.message_history[i].msg])
       ELSE r

\* TokenizedMessageLimiter.serialize_messages
serialize_messages(self) ==
    Returned(self,
             <<self.system_message.msg>>
                 \o [i \in 1..Len(self.message_history) |->
                        self.message_history[i].msg])

\* TokenizedMessageLimiter.__deepcopy__: the copy is built by the
\* constructor from self.limit and then given copies of three fields
deepcopy(self) ==
    LET new == TokenizedMessageLimiter(self.limit)
    IN Returned(self,
                [new EXCEPT
                    !.message_history = self.message_history,
                    !.token_count = self.token_count,
                    !.system_message = self.system_message])

\* __deepcopy__ that hands the copy the original's deque
deepcopy_shared_history(self) == {"message_history"}

\* __deepcopy__, lines 133 and 135: the attributes of the copy that refer to
\* the very object the original refers to.  copy.deepcopy builds a new deque
\* of new entries and a new system entry, so none is shared.
deepcopy_shared(self) == {}

\* ----------------------------------------------------------------- state
VARIABLES
    ext,              \* the limit the constructor was called with
    limit,            \* self.limit
    message_history,  \* self.message_history
    token_count,      \* self.token_count
    system_message,   \* self.system_message
    new_obj,          \* <<the object the last __deepcopy__ returned>>, or <<>>
    ncopies,          \* deep copies made so far
    op,               \* the last call
    arg,              \* its arguments
    raised,           \* the exception it raised, or "none"
    ret,              \* the list it returned, or <<>>
    pre,              \* the object before the last call, and the call before
    shared,           \* attributes of the copy that are the original's object
    pc,               \* where the bot's message handler stands
    user_data,        \* the keys of context.user_data
    inflight,         \* message handlers suspended at the completion call
    typing_task       \* the typing task of the last message handler begun

vars == <<ext, limit, message_history, token_count, system_message,
          new_obj, ncopies, op, arg, raised, ret, pre, shared, pc,
          user_data, inflight, typing_task>>

Self == [limit |-> limit, message_history |-> message_history,
         token_count |-> token_count, system_message |-> system_message]

NoArg == [msg |-> <<>>, role |-> "none"]

\* the key the bot keeps a user's limiter under
LimiterKey == "tokenized_message_limiter"

Pre == [self |-> Self, op |-> op, raised |-> raised]

\* the caller's view after a call with result r
Call(name, a, r) ==
    /\ limit' = r.self.limit
    /\ message_history' = r.self.message_history
    /\ token_count' = r.self.token_count
    /\ system_message' = r.self.system_message
    /\ op' = name
    /\ arg' = a
    /\ raised' = r.raised
    /\ pre' = Pre

Init ==
    /\ ext \in ExtLimits
    /\ LET self == TokenizedMessageLimiter(ext)
       IN /\ limit = self.limit
          /\ message_history = self.message_history
          /\ token_count = self.token_count
          /\ system_message = self.system_message
          /\ pre = [self |-> self, op |-> "none", raised |-> "none"]
    /\ new_obj = <<>>
    /\ ncopies = 0
    /\ op = "init"
    /\ arg = NoArg
    /\ raised = "none"
    /\ ret = <<>>
    /\ shared = {}
    /\ pc = "idle"
    /\ user_data = {LimiterKey}
    /\ inflight = <<>>
    /\ typing_task = "none"

SetSystemMessage ==
    \E text \in Texts :
        /\ Call("set_system_message", [msg |-> text, role |-> SYSTEM],
                set_system_message(Self, text))
        /\ ret' = <<>>
        /\ UNCHANGED <<ext, new_obj, ncopies, shared, pc, user_data, inflight, typing_task>>

AddMessage ==
    \E text \in Texts, role \in {USER, ASSISTANT} :
        /\ Call("add_message", [msg |-> text, role |-> role],
                add_message(Self, text, role))
        /\ ret' = <<>>
        /\ UNCHANGED <<ext, new_obj, ncopies, shared, pc, user_data, inflight, typing_task>>

CleanMessages ==
    /\ Call("clean_messages", NoArg, clean_messages(Self))
    /\ ret' = <<>>
    /\ UNCHANGED <<ext, new_obj, ncopies, shared, pc, user_data, inflight, typing_task>>

SerializeMessages ==
    LET r == serialize_messages(Self)
    IN /\ Call("serialize_messages", NoArg, r)
       /\ ret' = r.ret
       /\ UNCHANGED <<ext, new_obj, ncopies, shared, pc, user_data, inflight, typing_task>>

\* copy.deepcopy(limiter)
DeepCopy ==
    /\ ncopies < MaxCopies
    /\ LET r == deepcopy(Self)
       IN /\ Call("deepcopy", NoArg, r)
          /\ new_obj' = <<r.ret>>
    /\ ncopies' = ncopies + 1
    /\ ret' = <<>>
    /\ shared' = deepcopy_shared(Self)
    /\ UNCHANGED <<ext, pc, user_data, inflight, typing_task>>

\* the caller goes on with the copy: limiter = copy.deepcopy(limiter)
UseCopy ==
    /\ op = "deepcopy"
    /\ new_obj # <<>>
    /\ Call("use_copy", NoArg, Returned(new_obj[1], <<>>))
    /\ ret' = <<>>
    /\ UNCHANGED <<ext, new_obj, ncopies, shared, pc, user_data, inflight, typing_task>>

\* a direct call of _prune_messages, with or without its limit argument
PruneMessages ==
    \E limit_arg \in {None, {0}} :
        LET r == prune_messages(Self, limit_arg)
        IN /\ Call("_prune_messages", NoArg, r)
           /\ ret' = r.ret
           /\ UNCHANGED <<ext, new_obj, ncopies, shared, pc, user_data, inflight, typing_task>>

Next ==
    \/ SetSystemMessage
    \/ AddMessage
    \/ CleanMessages
    \/ SerializeMessages

Spec == Init /\ [][Next]_vars

NextCopy ==
    \/ SetSystemMessage
    \/ AddMessage
    \/ CleanMessages
    \/ SerializeMessages
    \/ DeepCopy
    \/ UseCopy

\* the runs with deep copies start from the small limit only, which keeps
\* the pairs (original, copy) enumerable
InitCopy == Init /\ ext = SmallLimit

SpecCopy == InitCopy /\ [][NextCopy]_vars

\* the mutating calls a caller can make on the limiter obj
MethodCalls(obj) ==
    {[name |-> "set_system_message", msg |-> text, role |-> SYSTEM,
      r |-> set_system_message(obj, text)] : text \in Texts}
    \cup {[name |-> "add_message", msg |-> text, role |-> role,
           r |-> add_message(obj, text, role)] :
              text \in Texts, role \in {USER, ASSISTANT}}
    \cup {[name |-> "clean_messages", msg |-> <<>>, role |-> "none",
           r |-> clean_messages(obj)]}

\* what a holder of the other object sees after a call left the called
\* object as `after`: append and popleft change the deque in place, so a
\* shared deque changes for both; limit, token_count and system_message are
\* rebound on the called object only
SeenByOther(other, after) ==
    IF "message_history" \in shared
    THEN [other EXCEPT !.message_history = after.message_history]
    ELSE other

\* a mutating call on the original while a copy may exist
OnOriginal ==
    \E c \in MethodCalls(Self) :
        /\ Call(c.name, [msg |-> c.msg, role |-> c.role, on |-> "original"], c.r)
        /\ new_obj' = [i \in 1..Len(new_obj) |-> SeenByOther(new_obj[i], c.r.self)]
        /\ ret' = <<>>
        /\ UNCHANGED <<ext, ncopies, shared, pc, user_data, inflight, typing_task>>

\* a mutating call on the copy
OnCopy ==
    /\ new_obj # <<>>
    /\ \E c \in MethodCalls(new_obj[1]) :
        /\ Call(c.name, [msg |-> c.msg, role |-> c.role, on |-> "copy"],
                [c.r EXCEPT !.self = SeenByOther(Self, c.r.self)])
        /\ new_obj' = <<c.r.self>>
        /\ ret' = <<>>
        /\ UNCHANGED <<ext, ncopies, shared, pc, user_data, inflight, typing_task>>

\* the one deep copy of a run in which both objects are then called
CopyOnce ==
    /\ new_obj = <<>>
    /\ DeepCopy

\* a limiter and its deep copy, each called by its holder
NextAlias ==
    \/ CopyOnce
    \/ OnOriginal
    \/ OnCopy

SpecAlias == InitCopy /\ [][NextAlias]_vars

\* ------------------------------------------------- the Telegram bot
\* a system handler that passes the text on as it came
strip_nothing(text) == text

\* str.strip() of a text: leading and trailing whitespace tokens removed
RECURSIVE strip(_)
strip(text) ==
    IF text = <<>> THEN <<>>
    ELSE IF Head(text) = " " THEN strip(Tail(text))
    ELSE IF text[Len(text)] = " " THEN strip(SubSeq(text, 1, Len(text) - 1))
    ELSE text

\* message handler whose failed completion call takes the user's entry
\* back out of the history
completion_failed_rollback(self) ==
    IF self.message_history = <<>>
    THEN Raised(self, "OpenAIError")
    ELSE LET n == Len(self.message_history)
         IN Raised([self EXCEPT
                       !.message_history = SubSeq(@, 1, n - 1),
                       !.token_count = @ - self.message_history[n].tokens],
                   "OpenAIError")

\* message handler, bot.py lines 78-87, when the awaited completion call
\* raises: the exception leaves the handler, the rest of it is skipped and
\* the limiter in user_data stays as it is
completion_failed(self) == Raised(self, "OpenAIError")

\* a handler that builds a new limiter whether or not the user has one
user_limiter_always_new(keys, self, default_limit) ==
    TokenizedMessageLimiter(default_limit)

\* the first lines of every handler: a user without a limiter is given a new
\* one, built with the default limit; the handler then works on the user's
\* limiter
user_limiter(keys, self, default_limit) ==
    IF LimiterKey \notin keys
    THEN TokenizedMessageLimiter(default_limit)
    ELSE self

\* start handler: /start
Start ==
    /\ pc = "idle"
    /\ Call("start", NoArg, Returned(user_limiter(user_data, Self, ext), <<>>))
    /\ ret' = <<"WELCOME_MESSAGE">>
    /\ user_data' = user_data \cup {LimiterKey}
    /\ UNCHANGED <<ext, new_obj, ncopies, shared, pc, inflight, typing_task>>

\* system handler: /system <text>
SystemCommand ==
    /\ pc = "idle"
    /\ \E text \in Texts :
        LET system_text == strip(text)
            tokenized_message_limiter == user_limiter(user_data, Self, ext)
        IN IF system_text # <<>>
           THEN /\ Call("system", [msg |-> text, role |-> SYSTEM],
                        set_system_message(tokenized_message_limiter, system_text))
                /\ ret' = <<>>
           ELSE /\ Call("system", [msg |-> text, role |-> SYSTEM],
                        Returned(tokenized_message_limiter, <<>>))
                /\ ret' = <<tokenized_message_limiter.system_message.msg.content>>
    /\ user_data' = user_data \cup {LimiterKey}
    /\ UNCHANGED <<ext, new_obj, ncopies, shared, pc, inflight, typing_task>>

\* message handler up to the awaited completion call: the typing task is
\* created and the user's text is added; an exception of add_message ends the
\* handler
MessageReceived ==
    /\ pc = "idle"
    /\ typing_task' = "running"
    /\ \E user_text \in Texts \ {<<>>} :
        LET tokenized_message_limiter == user_limiter(user_data, Self, ext)
            r == add_message(tokenized_message_limiter, user_text, USER)
        IN /\ Call("message", [msg |-> user_text, role |-> USER], r)
           /\ pc' = IF r.raised = "none" THEN "awaiting" ELSE "idle"
    /\ ret' = <<>>
    /\ user_data' = user_data \cup {LimiterKey}
    /\ UNCHANGED <<ext, new_obj, ncopies, shared, inflight>>

\* message handler after the completion call returned: the reply is added,
\* and when add_message has returned the typing task is cancelled
CompletionReturns ==
    /\ pc = "awaiting"
    /\ \E assistant_response \in Texts :
        LET r == add_message(Self, assistant_response, ASSISTANT)
        IN /\ Call("message_reply", [msg |-> assistant_response, role |-> ASSISTANT], r)
           /\ typing_task' = IF r.raised = "none" THEN "cancelled" ELSE typing_task
    /\ pc' = "idle"
    /\ ret' = <<>>
    /\ UNCHANGED <<ext, new_obj, ncopies, shared, user_data, inflight>>

\* message handler when the completion call raises; arg stays the turn's
\* user message, and the typing task is left as it is
CompletionFails ==
    /\ pc = "awaiting"
    /\ Call("completion_failed", arg, completion_failed(Self))
    /\ pc' = "idle"
    /\ ret' = <<>>
    /\ UNCHANGED <<ext, new_obj, ncopies, shared, user_data, inflight, typing_task>>

\* updates are handled one after the other (the application is built
\* without concurrent updates), so a handler runs to its end before the next
NextBot ==
    \/ SystemCommand
    \/ MessageReceived
    \/ CompletionReturns
    \/ CompletionFails

\* the bot builds its limiter with the default limit, which stands to the
\* default system message as the large limit of the model does
InitBot == Init /\ ext = LargeLimit

SpecBot == InitBot /\ [][NextBot]_vars

\* a user the bot has not heard from: user_data is empty, and the variables
\* of the limiter hold no limiter
NoLimiter ==
    [limit |-> 0, message_history |-> <<>>, token_count |-> 0,
     system_message |-> [msg |-> [role |-> "none", content |-> <<>>], tokens |-> 0]]

InitSession ==
    /\ ext = LargeLimit
    /\ limit = NoLimiter.limit
    /\ message_history = NoLimiter.message_history
    /\ token_count = NoLimiter.token_count
    /\ system_message = NoLimiter.system_message
    /\ pre = [self |-> NoLimiter, op |-> "none", raised |-> "none"]
    /\ new_obj = <<>>
    /\ ncopies = 0
    /\ op = "init"
    /\ arg = NoArg
    /\ raised = "none"
    /\ ret = <<>>
    /\ shared = {}
    /\ pc = "idle"
    /\ user_data = {}
    /\ inflight = <<>>
    /\ typing_task = "none"

NextSession ==
    \/ Start
    \/ SystemCommand
    \/ MessageReceived
    \/ CompletionReturns
    \/ CompletionFails

SpecSession == InitSession /\ [][NextSession]_vars

\* ------------------------------------------------ entries on their own
\* the messages util.calculate_tokens is given: role and content, with or
\* without a name
Names == {Text(1, "w")}
Msgs ==
    {[role |-> r, content |-> c] : r \in Role, c \in Texts}
        \cup {[role |-> r, content |-> c, name |-> n] :
                 r \in Role, c \in Texts, n \in Names}

\* MessageEntry(role, content, model)
CreateEntry ==
    \E role \in Role, content \in Texts, model \in Models :
        LET r == MessageEntryFor(role, content, model)
        IN /\ Call("MessageEntry", [msg |-> content, role |-> role, model |-> model],
                   [self |-> Self, raised |-> r.raised])
           /\ ret' = r.ret
           /\ UNCHANGED <<ext, new_obj, ncopies, shared, pc, user_data, inflight, typing_task>>

\* MessageEntry(role, content, model) of the one-file limiter
CreateLegacyEntry ==
    \E role \in Role, content \in Texts, model \in Models :
        LET r == LegacyMessageEntryFor(role, content, model)
        IN /\ Call("LegacyMessageEntry",
                   [msg |-> content, role |-> role, model |-> model],
                   [self |-> Self, raised |-> r.raised])
           /\ ret' = r.ret
           /\ UNCHANGED <<ext, new_obj, ncopies, shared, pc, user_data, inflight, typing_task>>

\* await calculate_tokens(msg, model)
CalculateTokens ==
    \E msg \in Msgs, model \in Models :
        LET r == calculate_tokens(msg, model)
        IN /\ Call("calculate_tokens", [msg |-> msg, model |-> model],
                   [self |-> Self, raised |-> r.raised])
           /\ ret' = IF r.raised = "none" THEN <<r.ret>> ELSE <<>>
           /\ UNCHANGED <<ext, new_obj, ncopies, shared, pc, user_data, inflight, typing_task>>

\* entries made on their own and entries the limiter makes and keeps
NextEntry ==
    \/ CreateEntry
    \/ CreateLegacyEntry
    \/ CalculateTokens
    \/ AddMessage

SpecEntry == Init /\ [][NextEntry]_vars

\* the limiter with _prune_messages callable on its own
NextPrune ==
    \/ SetSystemMessage
    \/ AddMessage
    \/ CleanMessages
    \/ SerializeMessages
    \/ PruneMessages

SpecPrune == Init /\ [][NextPrune]_vars

\* --------------------------------------------- OpenAI._calculate_tokens
\* the side of an image tile and the costs of an image
TileSide == 512
ImageBaseCost == 85
ImageTileCost == 170

\* the number of parts of a content list
MaxParts == 2

\* heights and widths of attached images
Dims == {1, TileSide, TileSide + 1, 2 * TileSide + 1}

\* math.ceil(x / TileSide): the division by a power of two is exact
ceil_tiles(x) == (x + TileSide - 1) \div TileSide

\* the content entries _handle_attachment and collect_payload build: a text,
\* or an image given by the height and width PIL reads from its bytes
TextParts == {[type |-> "text", text |-> t] : t \in Texts}
ImageParts == {[type |-> "image_url", height |-> h, width |-> w] : h \in Dims, w \in Dims}
Parts == TextParts \cup ImageParts
Contents == UNION {[1..n -> Parts] : n \in 0..MaxParts}

\* LLMModel versions
LLMVersions == {"gpt-4-vision-preview", "gpt-4-turbo-preview",
                "claude-3-opus-20240229", "claude-3-sonnet-20240229"}

\* an image counted by whole tiles only
entry_tokens_floor(entry) ==
    IF entry.type = "text" THEN Len(encode(entry.text))
    ELSE IF entry.type = "image_url"
    THEN ImageBaseCost
         + ImageTileCost * ((entry.width \div TileSide) * (entry.height \div TileSide))
    ELSE 0

\* one pass of the loop over content
entry_tokens(entry) ==
    IF entry.type = "text" THEN Len(encode(entry.text))
    ELSE IF entry.type = "image_url"
    THEN LET h == ceil_tiles(entry.height)
             w == ceil_tiles(entry.width)
             n == w * h
         IN ImageBaseCost + ImageTileCost * n
    ELSE 0

\* the loop over content
RECURSIVE content_tokens(_)
content_tokens(content) ==
    IF content = <<>> THEN 0
    ELSE entry_tokens(Head(content)) + content_tokens(Tail(content))

\* OpenAI._calculate_tokens: the KeyError of the tokenizer lookup becomes
\* NotImplementedError
OpenAI_calculate_tokens(content, model) ==
    IF encoding_for_model(model).raised = "KeyError"
    THEN [raised |-> "NotImplementedError", ret |-> <<>>]
    ELSE [raised |-> "none", ret |-> <<content_tokens(content)>>]

\* a state in which an input waits for the operation named by its kind
InitInput(inputs) ==
    /\ ext = LargeLimit
    /\ LET self == TokenizedMessageLimiter(ext)
       IN /\ limit = self.limit
          /\ message_history = self.message_history
          /\ token_count = self.token_count
          /\ system_message = self.system_message
          /\ pre = [self |-> self, op |-> "none", raised |-> "none"]
    /\ new_obj = <<>>
    /\ ncopies = 0
    /\ op = "input"
    /\ arg \in inputs
    /\ raised = "none"
    /\ ret = <<>>
    /\ shared = {}
    /\ pc = "idle"
    /\ user_data = {LimiterKey}
    /\ inflight = <<>>
    /\ typing_task = "none"

\* await self._calculate_tokens(content, model) on the waiting input
CalculateContentTokens ==
    /\ op = "input"
    /\ LET r == OpenAI_calculate_tokens(arg.content, arg.model)
       IN /\ Call("OpenAI._calculate_tokens", arg,
                  [self |-> Self, raised |-> r.raised])
          /\ ret' = r.ret
    /\ UNCHANGED <<ext, new_obj, ncopies, shared, pc, user_data, inflight, typing_task>>

NextParts == CalculateContentTokens

InitParts == InitInput([content : Contents, model : LLMVersions])

SpecParts == InitParts /\ [][NextParts]_vars

\* ------------------------------- message handlers of one user in flight
\* handlers of one user that have begun and not ended
MaxInFlight == 2

\* a handler that also gives up control between the append and the count
suspends_mid_append(at) == at \in {"completion", "appended"}

\* where a running handler gives control back to the event loop: at the
\* awaited completion call; add_message and _prune_messages hold no await
suspends(at) == at = "completion"

\* the entry add_message builds from its arguments
ArgEntryOf(a) == MessageEntry(a.role, a.msg)

RemoveAt(seq, i) == SubSeq(seq, 1, i - 1) \o SubSeq(seq, i + 1, Len(seq))

\* a statement of the running handler ran
Ran(name, a) ==
    /\ op' = name
    /\ arg' = a
    /\ pre' = pre
    /\ UNCHANGED <<ext, new_obj, ncopies, shared, typing_task>>

\* message, lines 72-77, and add_message up to self.message_history.append
HandlerBegins ==
    /\ pc = "idle"
    /\ Len(inflight) < MaxInFlight
    /\ \E user_text \in Texts \ {<<>>} :
        LET tokenized_message_limiter == user_limiter(user_data, Self, ext)
            entry == MessageEntry(USER, user_text)
        IN /\ limit' = tokenized_message_limiter.limit
           /\ system_message' = tokenized_message_limiter.system_message
           /\ token_count' = tokenized_message_limiter.token_count
           /\ message_history' = Append(tokenized_message_limiter.message_history, entry)
           /\ Ran("message", [msg |-> user_text, role |-> USER])
    /\ pc' = "appended"
    /\ raised' = "none"
    /\ ret' = <<>>
    /\ user_data' = user_data \cup {LimiterKey}
    /\ UNCHANGED inflight

\* self.token_count += entry.tokens
CountTokens ==
    /\ pc = "appended"
    /\ ~suspends(pc)
    /\ token_count' = token_count + ArgEntryOf(arg).tokens
    /\ pc' = "pruning"
    /\ Ran(op, arg)
    /\ UNCHANGED <<limit, message_history, system_message, raised, ret,
                   user_data, inflight, typing_task>>

\* the test of token_count against limit: popleft while it is over, or the
\* return of add_message, after which the handler of the user's message
\* stands at the completion call and the handler of the reply ends
TestLimit ==
    /\ pc = "pruning"
    /\ IF token_count > limit
       THEN IF message_history = <<>>
            THEN /\ raised' = "IndexError"
                 /\ pc' = "idle"
                 /\ Ran(op, arg)
                 /\ UNCHANGED <<message_history, ret>>
            ELSE /\ message_history' = Tail(message_history)
                 /\ ret' = Append(ret, Head(message_history))
                 /\ pc' = "popped"
                 /\ Ran(op, arg)
                 /\ UNCHANGED raised
       ELSE /\ pc' = IF arg.role = USER THEN "completion" ELSE "idle"
            /\ Ran("add_message_returned", arg)
            /\ ret' = <<>>
            /\ UNCHANGED <<message_history, raised>>
    /\ UNCHANGED <<limit, token_count, system_message, user_data, inflight, typing_task>>

\* self.token_count -= removed_entry.tokens
SubtractTokens ==
    /\ pc = "popped"
    /\ token_count' = token_count - ret[Len(ret)].tokens
    /\ pc' = "pruning"
    /\ Ran(op, arg)
    /\ UNCHANGED <<limit, message_history, system_message, raised, ret,
                   user_data, inflight, typing_task>>

\* the running handler gives up control
Suspend ==
    /\ suspends(pc)
    /\ inflight' = Append(inflight, [at |-> pc, arg |-> arg])
    /\ pc' = "idle"
    /\ Ran(op, arg)
    /\ UNCHANGED <<limit, message_history, token_count, system_message,
                   raised, ret, user_data>>

\* the event loop resumes a handler: at the completion call with the reply,
\* which the handler appends as add_message begins
Resume ==
    /\ pc = "idle"
    /\ \E i \in 1..Len(inflight) :
        /\ inflight' = RemoveAt(inflight, i)
        /\ IF inflight[i].at = "completion"
           THEN \E assistant_response \in Texts :
                   /\ message_history'
                         = Append(message_history,
                                  MessageEntry(ASSISTANT, assistant_response))
                   /\ pc' = "appended"
                   /\ ret' = <<>>
                   /\ Ran("message_reply",
                          [msg |-> assistant_response, role |-> ASSISTANT])
           ELSE /\ pc' = inflight[i].at
                /\ ret' = <<>>
                /\ Ran(op, inflight[i].arg)
                /\ UNCHANGED message_history
    /\ UNCHANGED <<limit, token_count, system_message, raised, user_data>>

\* the event loop resumes a handler with the exception of the completion call
ResumeRaises ==
    /\ pc = "idle"
    /\ \E i \in 1..Len(inflight) :
        /\ inflight[i].at = "completion"
        /\ inflight' = RemoveAt(inflight, i)
        /\ Ran("completion_failed", inflight[i].arg)
    /\ raised' = completion_failed(Self).raised
    /\ UNCHANGED <<limit, message_history, token_count, system_message,
                   ret, pc, user_data>>

NextInFlight ==
    \/ HandlerBegins
    \/ CountTokens
    \/ TestLimit
    \/ SubtractTokens
    \/ Suspend
    \/ Resume
    \/ ResumeRaises

\* a user whose first command was /system with a text of one token
InitInFlight ==
    /\ ext = LargeLimit
    /\ LET fresh == TokenizedMessageLimiter(ext)
           self == set_system_message(fresh, Text(1, "w")).self
       IN /\ limit = self.limit
          /\ message_history = self.message_history
          /\ token_count = self.token_count
          /\ system_message = self.system_message
          /\ pre = [self |-> fresh, op |-> "init", raised |-> "none"]
    /\ new_obj = <<>>
    /\ ncopies = 0
    /\ op = "system"
    /\ arg = [msg |-> Text(1, "w"), role |-> SYSTEM]
    /\ raised = "none"
    /\ ret = <<>>
    /\ shared = {}
    /\ pc = "idle"
    /\ user_data = {LimiterKey}
    /\ inflight = <<>>
    /\ typing_task = "none"

SpecInFlight == InitInFlight /\ [][NextInFlight]_vars

\* ------------------------------------------------ payloads from threads
\* the messages of a thread, the starter message apart
MaxThread == 3

\* token limits of models, against entries that cost 7 and more
TinyLimit == 8
TokenLimits == {TinyLimit, SmallLimit, LargeLimit}

\* the texts of thread messages
ThreadTexts == {Text(0, "w"), Text(1, "w"), Text(MaxTextLen, "w")}

\* the texts of starter messages
StarterTexts == {Text(1, "w"), Text(MaxTextLen, "w")}

\* a thread's messages after the starter message, oldest first
PlainMessages == [bot : BOOLEAN, content : ThreadTexts]
PlainThreads == UNION {[1..n -> PlainMessages] : n \in 0..MaxThread}

\* the token limit of the model the starter message's reaction names, None
\* when no model matches it
ThreadModels == {{l} : l \in TokenLimits} \cup {None}
token_limit_of(model) == CHOOSE l \in model : TRUE

\* thread.history(): the messages newest first, each with its id; the
\* starter message, id 0, is the oldest of them in a thread that holds it
thread_history(thread) ==
    LET n == Len(thread.msgs)
        newest_first == [i \in 1..n |->
                            [id |-> n + 1 - i,
                             bot |-> thread.msgs[n + 1 - i].bot,
                             content |-> thread.msgs[n + 1 - i].content]]
    IN IF thread.starter_in_history
       THEN Append(newest_first, [id |-> 0, bot |-> FALSE, content |-> thread.starter])
       ELSE newest_first

\* list.insert(index, x) with index within the list
insert(list, index, x) ==
    SubSeq(list, 1, index) \o <<x>> \o SubSeq(list, index + 1, Len(list))

\* a loop that passes over a message that does not fit and goes on
RECURSIVE gpt_payload_loop_skip(_, _, _, _)
gpt_payload_loop_skip(history, messages, tokens, token_limit) ==
    IF history = <<>> THEN messages
    ELSE LET msg == Head(history)
             entry == [role |-> IF msg.bot THEN ASSISTANT ELSE USER,
                       content |-> msg.content]
             counted == tokens + calculate_tokens(entry, SupportedModel).ret
         IN IF msg.id = 0 THEN messages
            ELSE IF counted > token_limit
            THEN gpt_payload_loop_skip(Tail(history), messages, tokens, token_limit)
            ELSE gpt_payload_loop_skip(Tail(history), insert(messages, 1, entry),
                                       counted, token_limit)

\* construct_gpt_payload: the loop over thread.history()
RECURSIVE gpt_payload_loop(_, _, _, _)
gpt_payload_loop(history, messages, tokens, token_limit) ==
    IF history = <<>> THEN messages
    ELSE LET msg == Head(history)
             entry == [role |-> IF msg.bot THEN ASSISTANT ELSE USER,
                       content |-> msg.content]
             counted == tokens + calculate_tokens(entry, SupportedModel).ret
         IN IF counted > token_limit \/ msg.id = 0
            THEN messages
            ELSE gpt_payload_loop(Tail(history), insert(messages, 1, entry),
                                  counted, token_limit)

\* construct_gpt_payload(thread)
construct_gpt_payload(thread) ==
    IF thread.model = None
    THEN [raised |-> "BotGPTException", ret |-> <<>>]
    ELSE LET system_entry == [role |-> SYSTEM, content |-> thread.starter]
             tokens == calculate_tokens(system_entry, SupportedModel).ret
         IN [raised |-> "none",
             ret |-> gpt_payload_loop(thread_history(thread), <<system_entry>>,
                                      tokens, token_limit_of(thread.model))]

\* the input waits for the function: the thread, in arg
ConstructGptPayload ==
    /\ op = "input"
    /\ LET r == construct_gpt_payload(arg)
       IN /\ Call("construct_gpt_payload", arg, [self |-> Self, raised |-> r.raised])
          /\ ret' = r.ret
    /\ UNCHANGED <<ext, new_obj, ncopies, shared, pc, user_data, inflight, typing_task>>

NextGptPayload == ConstructGptPayload

InitGptPayload ==
    InitInput([starter : StarterTexts, starter_in_history : BOOLEAN,
               msgs : PlainThreads, model : ThreadModels])

SpecGptPayload == InitGptPayload /\ [][NextGptPayload]_vars

\* ---------------------------------------------------- LLM.collect_payload
\* token limits of models, against texts of one or two tokens and images
SmallPayloadLimit == 2
MidPayloadLimit == 4
ImagePayloadLimit == ImageBaseCost + ImageTileCost + 2
PayloadLimits == {SmallPayloadLimit, MidPayloadLimit, ImagePayloadLimit}

\* attachments: a text file, an image of one tile, a file of another type
TextAttachment == [content_type |-> "text/plain", text |-> Text(1, "w")]
ImageAttachment == [content_type |-> "image/png", height |-> 1, width |-> TileSide]
OtherAttachment == [content_type |-> "application/pdf"]

\* thread messages: texts of users and of the bot, a message with an image
\* and a text, a message that is only a text file, a system message (its
\* system_content differs from its content), a message with a file of
\* another type
RichMessages ==
    {[bot |-> FALSE, content |-> Text(1, "w"), attachments |-> <<>>, system |-> FALSE],
     [bot |-> TRUE, content |-> Text(MaxTextLen, "w"), attachments |-> <<>>, system |-> FALSE],
     [bot |-> FALSE, content |-> Text(1, "w"), attachments |-> <<ImageAttachment>>,
      system |-> FALSE],
     [bot |-> FALSE, content |-> <<>>, attachments |-> <<TextAttachment>>, system |-> FALSE],
     [bot |-> FALSE, content |-> Text(1, "w"), attachments |-> <<>>, system |-> TRUE],
     [bot |-> FALSE, content |-> Text(1, "w"), attachments |-> <<OtherAttachment>>,
      system |-> FALSE]}
RichThreads == UNION {[1..n -> RichMessages] : n \in 0..MaxThread}

\* LLM._handle_attachment, the downloads succeeding
handle_attachment(attachment) ==
    IF attachment.content_type = "text/plain"
    THEN [raised |-> "none", ret |-> <<[type |-> "text", text |-> attachment.text]>>]
    ELSE IF attachment.content_type
               \in {"image/jpeg", "image/jpg", "image/png", "image/gif", "image/webp"}
    THEN [raised |-> "none",
          ret |-> <<[type |-> "image_url", height |-> attachment.height,
                     width |-> attachment.width]>>]
    ELSE [raised |-> "LLMException", ret |-> <<>>]

\* self._calculate_tokens(content, model) of the LLM in use
llm_calculate_tokens(content) == content_tokens(content)

\* the loop over msg.attachments
RECURSIVE attachments_loop(_, _, _, _)
attachments_loop(attachments, role, acc, token_limit) ==
    IF attachments = <<>> THEN acc
    ELSE LET content == handle_attachment(Head(attachments))
         IN IF content.raised # "none"
            THEN [acc EXCEPT !.raised = content.raised]
            ELSE LET tokens == acc.tokens + llm_calculate_tokens(content.ret)
                 IN attachments_loop(
                        Tail(attachments), role,
                        [acc EXCEPT
                            !.tokens = tokens,
                            !.reached_token_limit = @ \/ tokens > token_limit,
                            !.entries = Append(@, [role |-> role, content |-> content.ret])],
                        token_limit)

\* one pass of the loop over history, for a message that is not skipped
collect_message(msg, tokens, token_limit) ==
    LET role == IF msg.bot THEN ASSISTANT ELSE USER
        attached == attachments_loop(
                        msg.attachments, role,
                        [raised |-> "none", tokens |-> tokens,
                         reached_token_limit |-> FALSE, entries |-> <<>>],
                        token_limit)
    IN IF attached.raised # "none" \/ msg.content = <<>>
       THEN attached
       ELSE LET content == <<[type |-> "text", text |-> msg.content]>>
                counted == attached.tokens + llm_calculate_tokens(content)
            IN [attached EXCEPT
                   !.tokens = counted,
                   !.reached_token_limit = @ \/ counted > token_limit,
                   !.entries = Append(@, [role |-> role, content |-> content])]

\* a loop that takes a message's entries before it looks at the limit
RECURSIVE collect_loop_extend_first(_, _, _, _)
collect_loop_extend_first(history, messages, tokens, token_limit) ==
    IF history = <<>> THEN [raised |-> "none", ret |-> messages]
    ELSE LET msg == Head(history)
         IN IF msg.system
            THEN collect_loop_extend_first(Tail(history), messages, tokens, token_limit)
            ELSE LET r == collect_message(msg, tokens, token_limit)
                 IN IF r.raised # "none" THEN [raised |-> r.raised, ret |-> <<>>]
                    ELSE IF r.reached_token_limit
                    THEN [raised |-> "none", ret |-> messages \o r.entries]
                    ELSE collect_loop_extend_first(Tail(history), messages \o r.entries,
                                                   r.tokens, token_limit)

\* collect_payload: for msg in history
RECURSIVE collect_loop(_, _, _, _)
collect_loop(history, messages, tokens, token_limit) ==
    IF history = <<>> THEN [raised |-> "none", ret |-> messages]
    ELSE LET msg == Head(history)
         IN IF msg.system
            THEN collect_loop(Tail(history), messages, tokens, token_limit)
            ELSE LET r == collect_message(msg, tokens, token_limit)
                 IN IF r.raised # "none" THEN [raised |-> r.raised, ret |-> <<>>]
                    ELSE IF r.reached_token_limit
                    THEN [raised |-> "none", ret |-> messages]
                    ELSE collect_loop(Tail(history), messages \o r.entries,
                                      r.tokens, token_limit)

\* LLM.collect_payload(history, model, system_message)
collect_payload(history, token_limit, system_text) ==
    LET system_message_content == <<[type |-> "text", text |-> system_text]>>
        tokens == llm_calculate_tokens(system_message_content)
        system_message_entry == [role |-> SYSTEM, content |-> system_message_content]
    IN collect_loop(history, <<system_message_entry>>, tokens, token_limit)

\* thread.history() of a thread the bot set up: the starter message and the
\* three configuration messages, ids 0 to 3, then the thread's messages
configured_thread(thread) ==
    [i \in 1..(4 + Len(thread.msgs)) |->
        IF i <= 4
        THEN [id |-> i - 1, system |-> i = 1]
        ELSE [id |-> i - 1, system |-> thread.msgs[i - 4].system]]

\* collect_and_send: the history list, built with insert(0, msg) from the
\* thread's messages walked newest first
RECURSIVE collect_history(_, _, _)
collect_history(thread, newest_first, history) ==
    IF newest_first = <<>> THEN history
    ELSE LET msg == Head(newest_first)
         IN IF msg.id \in 0..3 \/ msg.system
            THEN collect_history(thread, Tail(newest_first), history)
            ELSE collect_history(thread, Tail(newest_first),
                                 <<thread.msgs[msg.id - 3]>> \o history)

Reverse(seq) == [i \in 1..Len(seq) |-> seq[Len(seq) + 1 - i]]

\* collect_and_send up to the call of the model: the payload communicate
\* sends; an exception is caught and its text sent to the thread instead
collect_and_send(thread) ==
    LET history == collect_history(thread, Reverse(configured_thread(thread)), <<>>)
    IN collect_payload(history, thread.token_limit, thread.starter)

\* collect_payload on the waiting input, its messages taken as the history
CollectPayload ==
    /\ op = "input"
    /\ LET r == collect_payload(arg.msgs, arg.token_limit, arg.starter)
       IN /\ Call("collect_payload", arg, [self |-> Self, raised |-> r.raised])
          /\ ret' = r.ret
    /\ UNCHANGED <<ext, new_obj, ncopies, shared, pc, user_data, inflight, typing_task>>

\* collect_and_send on the waiting input, its messages taken as the thread's
CollectAndSend ==
    /\ op = "input"
    /\ LET r == collect_and_send(arg)
       IN /\ Call("collect_and_send", arg, [self |-> Self, raised |-> r.raised])
          /\ ret' = r.ret
    /\ UNCHANGED <<ext, new_obj, ncopies, shared, pc, user_data, inflight, typing_task>>

NextCollect ==
    \/ CollectPayload
    \/ CollectAndSend

InitCollect ==
    InitInput([starter : StarterTexts, msgs : RichThreads, token_limit : PayloadLimits])

SpecCollect == InitCollect /\ [][NextCollect]_vars

\* ------------------------------------------------ GPT._collect_gpt_payload
\* GPT._calculate_tokens(msg, model), for a model tiktoken knows
gpt_calculate_tokens(msg) == Len(encode(msg))

\* the loop over msg.attachments: the entry it builds is dropped, the limit
\* is looked at again
RECURSIVE gpt_attachments_loop(_, _, _, _)
gpt_attachments_loop(attachments, tokens, reached_token_limit, token_limit) ==
    IF attachments = <<>> THEN reached_token_limit
    ELSE gpt_attachments_loop(Tail(attachments), tokens,
                              reached_token_limit \/ tokens > token_limit, token_limit)

\* _collect_gpt_payload: the loop over thread.history(), newest first;
\* entries is set to [] for every message and nothing is put into it
RECURSIVE gpt_collect_loop(_, _, _, _)
gpt_collect_loop(history, messages, tokens, token_limit) ==
    IF history = <<>> THEN messages
    ELSE LET msg == Head(history)
         IN IF msg.id \in 0..3
            THEN gpt_collect_loop(Tail(history), messages, tokens, token_limit)
            ELSE LET entries == <<>>
                     counted == IF msg.content # <<>>
                                THEN tokens + gpt_calculate_tokens(msg.content)
                                ELSE tokens
                     reached_token_limit ==
                         gpt_attachments_loop(msg.attachments, counted,
                                              msg.content # <<>> /\ counted > token_limit,
                                              token_limit)
                 IN IF reached_token_limit THEN messages
                    ELSE gpt_collect_loop(Tail(history),
                                          SubSeq(messages, 1, 1) \o entries
                                              \o SubSeq(messages, 2, Len(messages)),
                                          counted, token_limit)

\* thread.history() of a configured thread, newest first, with the messages'
\* content and attachments
gpt_thread_history(thread) ==
    Reverse([i \in 1..(4 + Len(thread.msgs)) |->
                IF i <= 4
                THEN [id |-> i - 1, content |-> thread.starter, attachments |-> <<>>]
                ELSE [id |-> i - 1, content |-> thread.msgs[i - 4].content,
                      attachments |-> thread.msgs[i - 4].attachments]])

\* GPT._collect_gpt_payload(thread): the messages it returns
collect_gpt_payload(thread) ==
    LET entry == [role |-> SYSTEM, content |-> thread.starter]
        tokens == gpt_calculate_tokens(thread.starter)
    IN [raised |-> "none",
        ret |-> gpt_collect_loop(gpt_thread_history(thread), <<entry>>, tokens,
                                 thread.token_limit)]

CollectGptPayload ==
    /\ op = "input"
    /\ LET r == collect_gpt_payload(arg)
       IN /\ Call("_collect_gpt_payload", arg, [self |-> Self, raised |-> r.raised])
          /\ ret' = r.ret
    /\ UNCHANGED <<ext, new_obj, ncopies, shared, pc, user_data, inflight, typing_task>>

NextGptCollect == CollectGptPayload

SpecGptCollect == InitCollect /\ [][NextGptCollect]_vars

\* --------------------------------------------------------------- safe_send
\* the length above which a text is split, the longest text sent, and the
\* calls of ctx.send one safe_send is followed through
ChunkLimit == 3
MaxSendLen == 6
MaxSends == 5

NEWLINE == "\n"
SendTexts == UNION {[1..n -> {"a", NEWLINE}] : n \in 0..MaxSendLen}

\* the view DiscordUtil.safe_send is given; util.safe_send has none
Views == {None, {"RetryButton"}}

\* text.rfind('\n', 0, end): the highest index below end, counted from 0,
\* at which text has a newline, or -1
rfind(text, end) ==
    LET found == {i \in 0..(Len(text) - 1) : i < end /\ text[i + 1] = NEWLINE}
    IN IF found = {} THEN -1
       ELSE CHOOSE i \in found : \A j \in found : j <= i

\* the index a slice bound stands for: a negative one counts from the end
slice_index(text, k) ==
    IF k >= 0 THEN (IF k > Len(text) THEN Len(text) ELSE k)
    ELSE (IF Len(text) + k < 0 THEN 0 ELSE Len(text) + k)

\* text[:k] and text[k:]
slice_to(text, k) == SubSeq(text, 1, slice_index(text, k))
slice_from(text, k) == SubSeq(text, slice_index(text, k) + 1, Len(text))

\* a loop body that leaves the newline it split at out of the rest
safe_send_iteration_skip_newline(text) ==
    LET break_pos == rfind(text, ChunkLimit)
    IN [sent |-> slice_to(text, break_pos),
        text |-> slice_from(text, break_pos + 1)]

\* the body of the while loop: what is sent and what text becomes
safe_send_iteration(text) ==
    LET break_pos == rfind(text, ChunkLimit)
    IN [sent |-> slice_to(text, break_pos),
        text |-> slice_from(text, break_pos)]

\* one pass of `while len(text) > 2000`; arg.text is the parameter text,
\* arg.original its value at the call
SendChunk ==
    /\ op \in {"input", "safe_send"}
    /\ pc = "idle"
    /\ Len(ret) < MaxSends
    /\ Len(arg.text) > ChunkLimit
    /\ LET step == safe_send_iteration(arg.text)
       IN /\ Call("safe_send", [arg EXCEPT !.text = step.text],
                  [self |-> Self, raised |-> "none"])
          /\ ret' = Append(ret, [text |-> step.sent, view |-> None])
    /\ UNCHANGED <<ext, new_obj, ncopies, shared, pc, user_data, inflight, typing_task>>

\* the send after the loop, with the view if one was given
SendRest ==
    /\ op \in {"input", "safe_send"}
    /\ pc = "idle"
    /\ Len(arg.text) <= ChunkLimit
    /\ Call("safe_send", arg, [self |-> Self, raised |-> "none"])
    /\ ret' = Append(ret, [text |-> arg.text, view |-> arg.view])
    /\ pc' = "done"
    /\ UNCHANGED <<ext, new_obj, ncopies, shared, user_data, inflight, typing_task>>

NextSend ==
    \/ SendChunk
    \/ SendRest

InitSend ==
    InitInput({[text |-> t, original |-> t, view |-> v] : t \in SendTexts, v \in Views})

SpecSend == InitSend /\ [][NextSend]_vars

\* ------------------------------------------------------ claim vocabulary
RECURSIVE SumTokens(_)
SumTokens(entries) ==
    IF entries = <<>> THEN 0
    ELSE Head(entries).tokens + SumTokens(Tail(entries))

\* entries without its first k elements
Drop(entries, k) == SubSeq(entries, k + 1, Len(entries))

IsSuffix(s, t) == Len(s) <= Len(t) /\ s = Drop(t, Len(t) - Len(s))

\* the longest suffix of entries whose tokens sum to at most cap (cap >= 0)
LongestSuffixWithin(entries, cap) ==
    LET fits == {k \in 0..Len(entries) : SumTokens(Drop(entries, k)) <= cap}
    IN Drop(entries, CHOOSE k \in fits : \A j \in fits : k <= j)

\* the entry the last add_message built from its arguments
ArgEntry == MessageEntry(arg.role, arg.msg)

\* the history with the new entry appended, before any eviction
Offered == Append(pre.self.message_history, ArgEntry)

CallReturned == raised = "none"

\* C1: after every operation, of the limiter and of any deep copy made of
\* it, token_count is the sum of the tokens of the entries in the history.
C1_TokenCountIsSum ==
    /\ token_count = SumTokens(message_history)
    /\ \A i \in 1..Len(new_obj) :
          new_obj[i].token_count = SumTokens(new_obj[i].message_history)

\* an add_message has evicted part of the history and kept the rest
C1_Witness ==
    /\ op = "add_message"
    /\ message_history # <<>>
    /\ Len(message_history) < Len(Offered)
    /\ token_count > 0

\* C2: when add_message or clean_messages has returned, token_count is at
\* most limit, whatever state the call started from.
C2_WithinLimitOnReturn ==
    (op \in {"add_message", "clean_messages"} /\ CallReturned)
        => token_count <= limit

\* an add_message that started over the limit has returned
C2_Witness ==
    /\ op = "add_message"
    /\ CallReturned
    /\ pre.self.token_count > pre.self.limit
    /\ message_history # <<>>

C4_SoleSurvivor ==
    (op = "add_message" /\ ArgEntry.tokens > limit)
        => message_history = <<ArgEntry>>

\* C4 amended: a message that alone costs more than limit evicts the prior
\* history and itself: the history is left empty with token_count 0.
C4_OversizedEmptiesHistory ==
    (op = "add_message" /\ ArgEntry.tokens > limit)
        => /\ message_history = <<>>
           /\ token_count = 0

\* an oversized message met a non-empty history that was within the limit
C4_Witness ==
    /\ op = "add_message"
    /\ CallReturned
    /\ ArgEntry.tokens > limit
    /\ pre.self.message_history # <<>>
    /\ pre.self.token_count <= pre.self.limit

\* C5 as stated: clean_messages leaves the history empty and token_count 0.
C5_CleanEmptiesHistory ==
    op = "clean_messages"
        => /\ message_history = <<>>
           /\ token_count = 0

\* C6 as stated: the object __deepcopy__ returns has the limit, the
\* token_count, the system message and the history of the original.
C6_CopyEqualsOriginal ==
    op = "deepcopy"
        => /\ new_obj[1].limit = limit
           /\ new_obj[1].token_count = token_count
           /\ new_obj[1].system_message = system_message
           /\ new_obj[1].message_history = message_history

\* C7: limit + system_message.tokens is the limit the constructor was
\* given, in every state reached by set_system_message, add_message and
\* clean_messages.
C7_LimitIsExternalMinusSystem ==
    limit + system_message.tokens = ext

\* the system message was replaced twice in a row, by one of another cost
C7_Witness ==
    /\ op = "set_system_message"
    /\ CallReturned
    /\ pre.op = "set_system_message"
    /\ pre.raised = "none"
    /\ system_message.tokens # pre.self.system_message.tokens
    /\ message_history # <<>>

\* C8: set_system_message with a non-empty text returns, replaces the
\* system entry, moves limit by the difference of the two entries' tokens
\* and leaves message_history and token_count as they were.
C8_SetSystemKeepsHistory ==
    (op = "set_system_message" /\ arg.msg # <<>>)
        => /\ CallReturned
           /\ message_history = pre.self.message_history
           /\ token_count = pre.self.token_count
           /\ system_message = MessageEntry(SYSTEM, arg.msg)
           /\ limit = (pre.self.limit + pre.self.system_message.tokens)
                          - system_message.tokens

\* set_system_message took a history that was within the limit over it
C8_Witness ==
    /\ op = "set_system_message"
    /\ CallReturned
    /\ pre.self.token_count <= pre.self.limit
    /\ message_history # <<>>
    /\ token_count > limit

\* the state set_system_message left was over the limit, and add_message
\* was called next
AddAfterOverBudgetSet ==
    /\ op = "add_message"
    /\ pre.op = "set_system_message"
    /\ pre.raised = "none"
    /\ pre.self.token_count > pre.self.limit

\* C9 as stated: the add_message that follows a set_system_message which
\* left token_count > limit returns with token_count <= limit.
C9_NextAddResolves ==
    AddAfterOverBudgetSet => (CallReturned /\ token_count <= limit)

\* C9 amended: when limit is not negative, the add_message that follows a
\* set_system_message which left token_count > limit returns with
\* token_count <= limit, and what it kept is a suffix of the history with
\* the new entry appended (the oldest entries went first).
C9_NextAddResolvesNonNegative ==
    (AddAfterOverBudgetSet /\ limit >= 0)
        => /\ CallReturned
           /\ token_count <= limit
           /\ IsSuffix(message_history, Offered)

\* such an add_message evicted old entries and kept newer ones
C9_Witness ==
    /\ AddAfterOverBudgetSet
    /\ limit >= 0
    /\ CallReturned
    /\ pre.self.message_history # <<>>
    /\ message_history # <<>>
    /\ Len(message_history) < Len(Offered)

\* C10: set_system_message('') raises TokenizedMessageLimiterException and
\* leaves system message, limit, history and token_count unchanged.
C10_EmptyRejected ==
    (op = "set_system_message" /\ arg.msg = <<>>)
        => /\ raised = "TokenizedMessageLimiterException"
           /\ Self = pre.self

\* the empty text was refused by a limiter with a replaced system message
\* and a non-empty history
C10_Witness ==
    /\ op = "set_system_message"
    /\ arg.msg = <<>>
    /\ message_history # <<>>
    /\ system_message.msg.content # DefaultSystemText

\* a text of whitespace only, not empty
IsBlank(text) == text # <<>> /\ \A i \in 1..Len(text) : text[i] = " "

\* C11 as stated: set_system_message with a blank, non-empty text raises
\* TokenizedMessageLimiterException and the previous system message stays.
C11_BlankRejected ==
    (op = "set_system_message" /\ IsBlank(arg.msg))
        => /\ raised = "TokenizedMessageLimiterException"
           /\ system_message = pre.self.system_message

\* C12: eviction is strict FIFO.  Every step leaves a contiguous suffix of
\* what it found, with the new entry at the tail when the step is an
\* add_message: no entry goes while an older one stays, none is reordered
\* or inserted again; so the history is always a suffix of the sequence of
\* all entries added so far.
C12_EveryStepKeepsASuffix ==
    [][IF op' = "add_message"
       THEN IsSuffix(message_history',
                     Append(message_history, MessageEntry(arg'.role, arg'.msg)))
       ELSE IsSuffix(message_history', message_history)]_vars

\* an add_message evicted the oldest entry and kept two different entries
C12_Witness ==
    /\ op = "add_message"
    /\ Len(message_history) = 2
    /\ Len(Offered) = 3
    /\ message_history[1] # message_history[2]
    /\ message_history[1] # Offered[1]

\* the payload the last add_message was given
ArgPayload == [role |-> arg.role, content |-> arg.msg]

\* C13: serialize_messages returns the system message's payload first and
\* then the payloads of the history entries, oldest first, one element more
\* than the history has entries; and an add_message that evicts nothing
\* lengthens the history by exactly one entry, whose payload is the role and
\* the content it was given, so N such calls serialize to N+1 elements
\* that carry what was passed.
C13_SerializeOrderAndRoundTrip ==
    /\ op = "serialize_messages"
          => /\ CallReturned
             /\ Len(ret) = Len(message_history) + 1
             /\ ret[1] = system_message.msg
             /\ \A i \in 1..Len(message_history) :
                   ret[i + 1] = message_history[i].msg
    /\ (op = "add_message" /\ Len(message_history) > Len(pre.self.message_history))
          => /\ Len(message_history) = Len(pre.self.message_history) + 1
             /\ \A i \in 1..Len(pre.self.message_history) :
                   message_history[i] = pre.self.message_history[i]
             /\ message_history[Len(message_history)].msg = ArgPayload
             /\ serialize_messages(Self).ret
                   = serialize_messages(pre.self).ret \o <<ArgPayload>>

\* two messages of different roles were added without eviction, and the
\* list was serialized
C13_Witness ==
    /\ op = "serialize_messages"
    /\ Len(ret) = 3
    /\ ret[2] # ret[3]
    /\ ret[2].role # ret[3].role
    /\ token_count <= limit

\* C14: serialize_messages returns and changes nothing, whether or not
\* token_count > limit, and a second call right after the first returns
\* the same list.
C14_SerializeIsPure ==
    [][op' = "serialize_messages"
          => /\ raised' = "none"
             /\ Self' = Self
             /\ op = "serialize_messages" => ret' = ret]_vars

\* serialize_messages was called twice in a row on a non-empty history
\* that is over the limit
C14_Witness ==
    /\ op = "serialize_messages"
    /\ pre.op = "serialize_messages"
    /\ token_count > limit
    /\ Len(ret) > 1

C17_PrunedThenKeptIsBefore ==
    (op = "_prune_messages" /\ CallReturned)
        => /\ pre.self.message_history = ret \o message_history
           /\ token_count = pre.self.token_count - SumTokens(ret)
           /\ limit = pre.self.limit
           /\ system_message = pre.self.system_message

\* two different entries were evicted by one call
C17_Witness ==
    /\ op = "_prune_messages"
    /\ CallReturned
    /\ Len(ret) = 2
    /\ ret[1] # ret[2]

MutatingMethods == {"set_system_message", "add_message", "clean_messages"}

C18_UserEntryKept ==
    op = "completion_failed"
        => /\ message_history # <<>>
           /\ message_history[Len(message_history)] = ArgEntry
           /\ token_count = SumTokens(message_history)
           /\ token_count <= limit

\* C18 amended: when the completion call fails after the handler added the
\* user's message, the limiter is exactly as that add_message left it: nothing is
\* rolled back and no assistant entry is appended; the user's entry is the
\* newest entry (unless it alone costs more than limit, when add_message had
\* evicted it), token_count is the sum of the entries' tokens and at most
\* limit.
C18_FailedCompletionKeepsUserEntry ==
    op = "completion_failed"
        => /\ pre.op = "message"
           /\ pre.raised = "none"
           /\ Self = pre.self
           /\ token_count = SumTokens(message_history)
           /\ token_count <= limit
           /\ ArgEntry.tokens <= limit
                 => /\ message_history # <<>>
                    /\ message_history[Len(message_history)] = ArgEntry
                    /\ arg.role = USER
           /\ ArgEntry.tokens > limit => message_history = <<>>

\* the completion failed in a turn that followed a completed turn
C18_Witness ==
    /\ op = "completion_failed"
    /\ Len(message_history) >= 2
    /\ message_history[Len(message_history)] = ArgEntry
    /\ message_history[Len(message_history) - 1].msg.role = ASSISTANT

\* the spec's cost of a text message: 4 + size(role) + size(content) + 2,
\* size being the length of the tokenizer's encoding
EntryCost(msg) == 4 + Len(encode_role(msg.role)) + Len(encode(msg.content)) + 2

CostIsFormula(entry) == entry.tokens = EntryCost(entry.msg) /\ entry.tokens >= 0

EntryOps == {"MessageEntry", "LegacyMessageEntry"}

\* the message dictionary the estimator worked on in the last call
ArgMsg ==
    IF op = "calculate_tokens" THEN arg.msg
    ELSE [role |-> arg.role, content |-> arg.msg]

\* C19: on the supported model an entry's tokens are 4 + size(role) +
\* size(content) + 2: so for an entry just created (zero-length content is
\* accepted and adds 0), for the number the free-standing estimator returns
\* for a role/content message, and for every entry the limiter keeps
\* (the system message and the history), whose tokens stay what they were
\* at creation; no cost is negative.
C19_EntryCostFormula ==
    /\ CostIsFormula(system_message)
    /\ \A i \in 1..Len(message_history) : CostIsFormula(message_history[i])
    /\ (op \in EntryOps /\ arg.model = SupportedModel)
          => /\ raised = "none"
             /\ Len(ret) = 1
             /\ ret[1].msg = ArgMsg
             /\ CostIsFormula(ret[1])
             /\ arg.msg = <<>> => ret[1].tokens = 4 + Len(encode_role(arg.role)) + 2
    /\ (op = "calculate_tokens" /\ arg.model = SupportedModel)
          => /\ raised = "none"
             /\ Len(ret) = 1
             /\ ret[1] >= 0
             /\ DOMAIN arg.msg = {"role", "content"} => ret[1] = EntryCost(arg.msg)

\* an entry with zero-length content was created while the limiter holds
\* an entry of its own making
C19_Witness ==
    /\ op = "MessageEntry"
    /\ arg.model = SupportedModel
    /\ arg.msg = <<>>
    /\ ret # <<>>
    /\ message_history # <<>>

\* C20: for any model other than the supported one the estimator raises its
\* unsupported-model exception and returns no number (no entry comes to
\* exist), also when the tokenizer lookup did not know the model and fell
\* back to cl100k_base; for the supported model it returns.
C20_UnsupportedModelFails ==
    op \in EntryOps \cup {"calculate_tokens"}
        => /\ arg.model # SupportedModel
                 => /\ raised = IF op = "LegacyMessageEntry"
                                THEN "TokenizedMessageLimiterException"
                                ELSE "NotImplementedError"
                    /\ ret = <<>>
                    /\ Self = pre.self
           /\ arg.model = SupportedModel => raised = "none" /\ ret # <<>>
           /\ encoding_for_model(arg.model).raised = "KeyError"
                 => /\ calculate_tokens(ArgMsg, arg.model).encoding = "cl100k_base"
                    /\ calculate_tokens(ArgMsg, arg.model).raised # "none"
                    /\ legacy_calculate_tokens(ArgMsg, arg.model).raised # "none"

\* an entry was asked for with a model tiktoken does not know
C20_Witness ==
    /\ op = "MessageEntry"
    /\ encoding_for_model(arg.model).raised = "KeyError"
    /\ raised = "NotImplementedError"
    /\ ret = <<>>

\* the least n with n * d >= x
Ceil(x, d) == CHOOSE n \in 0..x : n * d >= x /\ (n = 0 \/ (n - 1) * d < x)

\* the spec's cost of one part
PartCost(part) ==
    IF part.type = "text" THEN Len(encode(part.text))
    ELSE 85 + 170 * (Ceil(part.height, 512) * Ceil(part.width, 512))

RECURSIVE SumPartCosts(_)
SumPartCosts(content) ==
    IF content = <<>> THEN 0
    ELSE PartCost(content[1]) + SumPartCosts(Tail(content))

\* C21: the cost returned for a content list is the sum of the costs of its
\* parts, an image part of height h and width w costing
\* 85 + 170 * ceil(h/512) * ceil(w/512); the empty list costs 0.
C21_ContentCostIsSumOfParts ==
    (op = "OpenAI._calculate_tokens" /\ raised = "none")
        => /\ ret = <<SumPartCosts(arg.content)>>
           /\ arg.content = <<>> => ret = <<0>>

\* a text and an image that does not fill its last tiles were costed together
C21_Witness ==
    /\ op = "OpenAI._calculate_tokens"
    /\ raised = "none"
    /\ Len(arg.content) = 2
    /\ arg.content[1].type = "text"
    /\ arg.content[1].text # <<>>
    /\ arg.content[2].type = "image_url"
    /\ arg.content[2].height = 513
    /\ arg.content[2].width = 1025
    /\ ret = <<Len(arg.content[1].text) + 85 + 170 * 6>>

\* C22: the limiter always has its one system message, of role system and
\* with non-empty content: the default after construction, the accepted
\* replacement after set_system_message, the previous one after a rejected
\* set_system_message, and the same one across add_message and
\* clean_messages; the history holds no second one.
C22_SystemMessagePresent ==
    /\ system_message.msg.role = SYSTEM
    /\ system_message.msg.content # <<>>
    /\ system_message.tokens = EntryCost(system_message.msg)
    /\ \A i \in 1..Len(message_history) : message_history[i].msg.role # SYSTEM
    /\ op = "init" => system_message.msg.content = DefaultSystemText
    /\ (op = "set_system_message" /\ raised = "none")
          => system_message.msg.content = arg.msg
    /\ (op = "set_system_message" /\ raised # "none")
          => system_message = pre.self.system_message
    /\ op \in {"add_message", "clean_messages"}
          => system_message = pre.self.system_message

\* an empty replacement was rejected after an earlier replacement went in
C22_Witness ==
    /\ op = "set_system_message"
    /\ raised = "TokenizedMessageLimiterException"
    /\ arg.msg = <<>>
    /\ pre.op = "set_system_message"
    /\ pre.raised = "none"
    /\ system_message.msg.content # DefaultSystemText
    /\ system_message.msg.content # <<>>

\* what a handler's step did to the history: kept it, or took entries from
\* its front and possibly put the step's new entry at its end
HistoryCarriedOn ==
    \E k \in 0..Len(message_history) :
        \/ message_history' = Drop(message_history, k)
        \/ /\ message_history' # <<>>
           /\ Drop(message_history, k)
                 = SubSeq(message_history', 1, Len(message_history') - 1)

\* C23: the user's limiter exists after the first handler of any kind ran,
\* built then with the default system message; once it exists every handler
\* works on it: /start leaves it as it is, /system leaves its history and
\* token_count as they are, and a message handler only evicts from the front
\* and appends its own entry.
C23_OneLimiterPerSession ==
    [][/\ LimiterKey \in user_data'
       /\ LimiterKey \notin user_data
             => /\ op' = "start" => Self' = TokenizedMessageLimiter(ext)
                /\ op' = "system" => message_history' = <<>> /\ token_count' = 0
                /\ (op' = "system" /\ strip(arg'.msg) = <<>>)
                      => Self' = TokenizedMessageLimiter(ext)
       /\ LimiterKey \in user_data
             => /\ op' = "start" => Self' = Self
                /\ op' = "system"
                      => /\ message_history' = message_history
                         /\ token_count' = token_count
                         /\ strip(arg'.msg) = <<>>
                               => system_message' = system_message
                /\ op' \in {"message", "message_reply", "completion_failed"}
                      => /\ system_message' = system_message
                         /\ limit' = limit
                         /\ HistoryCarriedOn]_vars

\* /start came in a session that has a history and its own system message
C23_Witness ==
    /\ op = "start"
    /\ message_history # <<>>
    /\ system_message.msg.content # DefaultSystemText
    /\ Self = pre.self

\* C24: with several message handlers of one user in flight, handlers are
\* suspended only at the completion call, so whenever the event loop has
\* control or a handler stands at the completion call token_count is the
\* sum of the entries' tokens, and token_count is at most limit whenever
\* add_message has returned.
C24_InterleavedHandlersKeepInvariants ==
    /\ \A i \in 1..Len(inflight) : inflight[i].at = "completion"
    /\ pc \in {"idle", "completion"} => token_count = SumTokens(message_history)
    /\ op = "add_message_returned" => token_count <= limit

\* the reply of one handler was added while another handler, begun after
\* it, waits for its own
C24_Witness ==
    /\ op = "add_message_returned"
    /\ arg.role = ASSISTANT
    /\ Len(inflight) = 1
    /\ Len(message_history) >= 2
    /\ message_history[Len(message_history)].msg.role = ASSISTANT
    /\ message_history[Len(message_history) - 1].msg.role = USER
    /\ message_history[Len(message_history) - 1] = ArgEntryOf(inflight[1].arg)

\* C25: add_message and clean_messages never raise, whatever the limit:
\* eviction never pops from an empty history.
C25_EvictionNeverRaises ==
    op \in {"add_message", "clean_messages"} => raised = "none"

\* the cost of a list of serialized messages
RECURSIVE PayloadCost(_)
PayloadCost(messages) ==
    IF messages = <<>> THEN 0
    ELSE EntryCost(Head(messages)) + PayloadCost(Tail(messages))

\* C26: whenever the message handler stands at the completion call, the
\* messages it sends (the system message and the serialized history) cost
\* together at most the limit the limiter was built with.
C26_PayloadFitsExternalLimit ==
    pc = "awaiting"
        => /\ serialize_messages(Self).raised = "none"
           /\ PayloadCost(serialize_messages(Self).ret) <= ext

\* the handler stands at the completion call with a history, after a /system
\* command had left the limiter over its limit
C26_Witness ==
    /\ pc = "awaiting"
    /\ message_history # <<>>
    /\ pre.op = "system"
    /\ pre.self.token_count > pre.self.limit
    /\ PayloadCost(serialize_messages(Self).ret) <= ext

\* the serialized entry of a plain thread message
PlainEntry(msg) ==
    [role |-> IF msg.bot THEN ASSISTANT ELSE USER, content |-> msg.content]

PlainEntries(msgs) == [i \in 1..Len(msgs) |-> PlainEntry(msgs[i])]

\* the longest run of the newest entries that costs at most cap
NewestRunWithin(entries, cap) ==
    LET fits == {k \in 0..Len(entries) :
                    PayloadCost(Drop(entries, Len(entries) - k)) <= cap}
        k == CHOOSE x \in fits : \A y \in fits : y <= x
    IN Drop(entries, Len(entries) - k)

RECURSIVE EntriesCost(_)
EntriesCost(entries) ==
    IF entries = <<>> THEN 0
    ELSE SumPartCosts(Head(entries).content) + EntriesCost(Tail(entries))

\* the entries of one Discord message: its attachments, then its text
EntriesOf(msg) ==
    LET role == IF msg.bot THEN ASSISTANT ELSE USER
    IN [i \in 1..Len(msg.attachments) |->
           [role |-> role, content |-> handle_attachment(msg.attachments[i]).ret]]
       \o (IF msg.content = <<>> THEN <<>>
           ELSE <<[role |-> role,
                   content |-> <<[type |-> "text", text |-> msg.content]>>]>>)

\* the entries of the messages of msgs whose index is in chosen, in order
RECURSIVE EntriesOfChosen(_, _, _)
EntriesOfChosen(msgs, chosen, i) ==
    IF i > Len(msgs) THEN <<>>
    ELSE (IF i \in chosen THEN EntriesOf(msgs[i]) ELSE <<>>)
         \o EntriesOfChosen(msgs, chosen, i + 1)

\* the messages of the input that are not system messages
Eligible(msgs) == {i \in 1..Len(msgs) : ~msgs[i].system}

\* C28: when the system message alone costs at most the token limit, the
\* entries of the returned payload cost together at most the token limit,
\* and the payload holds, after the system entry, all the entries of some
\* of the messages and no entry of the others.
C28_PayloadWithinLimitWholeMessages ==
    (op \in {"collect_payload", "collect_and_send"} /\ raised = "none"
        /\ Len(encode(arg.starter)) <= arg.token_limit)
        => /\ EntriesCost(ret) <= arg.token_limit
           /\ ret[1].role = SYSTEM
           /\ \E chosen \in SUBSET Eligible(arg.msgs) :
                 Tail(ret) = EntriesOfChosen(arg.msgs, chosen, 1)

\* a message's image fitted and its text did not, so the message stayed out
\* with both, after an earlier message went in
C28_Witness ==
    /\ op = "collect_payload"
    /\ raised = "none"
    /\ Len(arg.msgs) = 2
    /\ arg.msgs[2].attachments = <<ImageAttachment>>
    /\ arg.msgs[2].content # <<>>
    /\ Len(ret) = 2
    /\ EntriesCost(ret) + SumPartCosts(handle_attachment(ImageAttachment).ret)
          <= arg.token_limit

\* C29: the history part of the payload collect_and_send builds is a run of
\* the thread's messages that ends with the newest one: what does not fit
\* is dropped from the oldest end.
C29_KeepsNewestMessages ==
    (op = "collect_and_send" /\ raised = "none")
        => \E k \in 0..Len(arg.msgs) :
              Tail(ret) = EntriesOfChosen(arg.msgs,
                                          Eligible(arg.msgs) \cap (k + 1)..Len(arg.msgs), 1)

\* the entries GPT makes of the messages that have content, oldest first
RECURSIVE ContentEntries(_)
ContentEntries(msgs) ==
    IF msgs = <<>> THEN <<>>
    ELSE (IF Head(msgs).content = <<>> THEN <<>>
          ELSE <<[role |-> IF Head(msgs).bot THEN ASSISTANT ELSE USER,
                  content |-> Head(msgs).content]>>)
         \o ContentEntries(Tail(msgs))

RECURSIVE ContentCost(_)
ContentCost(entries) ==
    IF entries = <<>> THEN 0
    ELSE Len(encode(Head(entries).content)) + ContentCost(Tail(entries))

\* C30: _collect_gpt_payload returns the system entry and then, oldest
\* first, the entries of the newest messages with content, as many as fit
\* the model's token limit together with the system message.
C30_GptPayloadHasHistory ==
    (op = "_collect_gpt_payload" /\ raised = "none")
        => LET entries == ContentEntries(arg.msgs)
               room == arg.token_limit - Len(encode(arg.starter))
               fits == {k \in 0..Len(entries) :
                           ContentCost(Drop(entries, Len(entries) - k)) <= room}
           IN /\ ret[1] = [role |-> SYSTEM, content |-> arg.starter]
              /\ \E k \in fits :
                    /\ \A j \in fits : j <= k
                    /\ Tail(ret) = Drop(entries, Len(entries) - k)

\* the texts of the chunks sent so far, one after the other
RECURSIVE Concat(_)
Concat(chunks) ==
    IF chunks = <<>> THEN <<>> ELSE Head(chunks).text \o Concat(Tail(chunks))

\* C31: every pass of safe_send's loop leaves a text strictly shorter than
\* it found, so the loop ends for every text.
C31_EveryPassShortensText ==
    [][(op' = "safe_send" /\ pc' = "idle") => Len(arg'.text) < Len(arg.text)]_vars

\* C32: for a text longer than the limit, every chunk safe_send sends is
\* non-empty and at most the limit long.
C32_ChunksWithinLimit ==
    (op = "safe_send" /\ Len(arg.original) > ChunkLimit)
        => \A i \in 1..Len(ret) :
              ret[i].text # <<>> /\ Len(ret[i].text) <= ChunkLimit

\* C33: what safe_send has sent and what it still holds make up the text it
\* was given: when it has finished, the chunks, one after the other in the
\* order sent, are that text.
C33_ChunksMakeUpTheText ==
    /\ op = "safe_send" => Concat(ret) \o (IF pc = "done" THEN <<>> ELSE arg.text)
                              = arg.original
    /\ (op = "safe_send" /\ pc = "done") => Concat(ret) = arg.original

\* a text was sent in three chunks, split at newlines twice
C33_Witness ==
    /\ op = "safe_send"
    /\ pc = "done"
    /\ Len(ret) = 3
    /\ \A i \in 1..3 : ret[i].text # <<>>
    /\ arg.original[3] = NEWLINE
    /\ Concat(ret) = arg.original

\* C34: when the message handler has finished, by returning or by an
\* exception of a buffer operation or of the completion call, the typing task
\* it created has been cancelled.
C34_TypingTaskCancelled ==
    (pc = "idle" /\ op \in {"message", "message_reply", "completion_failed"})
        => typing_task = "cancelled"

\* a text of whitespace only, the empty text included
Blank(text) == \A i \in 1..Len(text) : text[i] = " "

\* text is core with whitespace before and after it, and core has none at
\* either end
StrippedTo(text, core) ==
    /\ core # <<>>
    /\ Head(core) # " "
    /\ core[Len(core)] # " "
    /\ \E i, j \in 0..Len(text) : text = Text(i, " ") \o core \o Text(j, " ")

\* C35: the /system handler never raises the empty-system-message error. A
\* command with no text but whitespace leaves the user's limiter (a new one
\* when the user had none) as it was and replies with its system message; a
\* command with text makes the stripped text the system message, keeps
\* history and token_count, and sends no reply.
C35_SystemHandler ==
    [][op' = "system" =>
         LET before == IF LimiterKey \in user_data
                       THEN Self
                       ELSE TokenizedMessageLimiter(ext)
         IN /\ raised' = "none"
            /\ Blank(arg'.msg) =>
                  /\ Self' = before
                  /\ ret' = <<before.system_message.msg.content>>
            /\ ~Blank(arg'.msg) =>
                  /\ StrippedTo(arg'.msg, system_message'.msg.content)
                  /\ message_history' = before.message_history
                  /\ token_count' = before.token_count
                  /\ ret' = <<>>]_vars

\* /system without text, after an exchange and after the user had set a
\* system message: the reply is that message
C35_Witness ==
    /\ op = "system"
    /\ raised = "none"
    /\ Blank(arg.msg)
    /\ message_history # <<>>
    /\ system_message.msg.content # DefaultSystemText
    /\ ret = <<system_message.msg.content>>
    /\ Self = pre.self

====
